---- MODULE Spec2Model ----
(***************************************************************************)
(* Model of the three Claude Code hook scripts of agent-skills:            *)
(*   skills/hooks/doc-check/doc-check-hook.py        (SessionStart)        *)
(*   skills/hooks/index-search/index-search-hook.py  (PreToolUse)          *)
(*   skills/hooks/session-todo/session-todo-hook.py  (SessionEnd)          *)
(* Each script is a single-threaded batch process: it reads one JSON       *)
(* document from stdin, looks at the file system, prints at most one       *)
(* document and exits.  A run is modelled as a small step machine (pc);    *)
(* the pure helper functions are operators computed as the code computes   *)
(* them.  Strings that the code slices, strips or lowercases are sequences *)
(* of characters; JSON values carry their kind so that a .get() on a       *)
(* non-object, or a str operation on a non-string, raises as in Python.    *)
(***************************************************************************)
EXTENDS Integers, Sequences, FiniteSets, TLC

VARIABLES
    script,          \* which hook script this process runs
    pc,              \* position of the process in main()
    stdin,           \* the document on standard input
    env_project_dir, \* os.environ CLAUDE_PROJECT_DIR: <<>> unset, <<p>> set to p
    exit_code,       \* process exit status once pc = "done" (-1 while running)
    stdout,          \* documents printed so far
    proj_files,      \* doc-check: names that exist inside the project directory
    missing,         \* doc-check: local list `missing`
    doc_i,           \* doc-check: index of the REQUIRED_DOCS entry examined next
    cwd_dir,         \* index-search: Path.cwd(), as its parts
    home_dir,        \* index-search: Path.home(), as its parts
    indexed,         \* index-search: the directories d where d/.claude/repo-index is a directory
    index_files,     \* index-search: each index file: "absent", "unreadable" or "text"
    index_dir,       \* index-search: what find_repo_index_dir returned
    terms,           \* index-search: what extract_search_terms returned
    sif_f,           \* search_index_files: position in index_files of the file at hand
    sif_n,           \* search_index_files: lines of that file read so far
    matched,         \* search_index_files: local list `matched`
    all_matches,     \* search_index_files: local list `all_matches`
    entries,         \* session-todo: the parsed transcript, in file order
    created_tasks,   \* extract_tasks_from_transcript: local dict `created_tasks`
    task_counter,    \* extract_tasks_from_transcript: local `task_counter`
    tasks,           \* session-todo: what extract_tasks_from_transcript returned
    transcript,      \* session-todo: the lines of the file at transcript_path
    mention_list,    \* extract_outstanding_mentions: local list `mentions`
    seen,            \* extract_outstanding_mentions: local set `seen`
    mentions,        \* session-todo: what extract_outstanding_mentions returned
    user_requests,   \* session-todo: what extract_user_requests returned
    content,         \* session-todo: what build_todo_content returned (<<>> for None)
    todo_file,       \* the project's TODO.md: whether it exists, and its text
    now,             \* the wall clock, in minutes
    run_no           \* session-end runs started so far in this project

procVars == <<script, pc, stdin, env_project_dir, exit_code, stdout>>
docVars == <<proj_files, missing, doc_i>>
idxVars == <<cwd_dir, home_dir, indexed, index_files, index_dir, terms,
             sif_f, sif_n, matched, all_matches>>
taskVars == <<entries, created_tasks, task_counter, tasks>>
mentionVars == <<mention_list, seen, mentions>>
mainVars == <<transcript, user_requests, content, todo_file, now, run_no>>
todoVars == <<taskVars, mentionVars, mainVars>>
vars == <<procVars, docVars, idxVars, todoVars>>

\* what a script leaves alone: the state of the other scripts
notDoc == <<idxVars, todoVars>>
notIdx == <<docVars, todoVars>>
notTodo == <<docVars, idxVars>>

----------------------------------------------------------------------------
(* JSON values.  k is the JSON kind, s the payload (a string is a sequence  *)
(* of characters, or of longer pieces where the code never looks inside     *)
(* them), t the Python truthiness of the value.                             *)

JAbsent == [k |-> "absent", s |-> <<>>, t |-> FALSE]
JNull == [k |-> "null", s |-> <<>>, t |-> FALSE]
JZero == [k |-> "number", s |-> <<"0">>, t |-> FALSE]
JNum == [k |-> "number", s |-> <<"7">>, t |-> TRUE]
JList == [k |-> "array", s |-> <<"x">>, t |-> TRUE]
JDict == [k |-> "object", s |-> <<"x">>, t |-> TRUE]
JStr(x) == [k |-> "string", s |-> x, t |-> x # <<>>]

\* dict.get(key, default): the field's value, or the default when absent
Get(field, default) == IF field.k = "absent" THEN default ELSE field

\* kinds json.load accepts that are not a dict: .get raises AttributeError
NonObjectKinds == {"array", "number", "string", "null", "bool"}

\* the shapes of standard input: not JSON at all, valid JSON of each kind
StdinKinds == {"notjson", "object"} \cup NonObjectKinds

\* An input document none of whose fields is set; pattern and path are the
\* members of tool_input when tool_input is an object
EmptyDoc(kind) ==
    [kind |-> kind, cwd |-> JAbsent, tool_name |-> JAbsent,
     tool_input |-> JAbsent, pattern |-> JAbsent, path |-> JAbsent,
     transcript_path |-> JAbsent, session_id |-> JAbsent]

\* sys.exit(code) / an uncaught exception (status 1, traceback on stderr)
Exit(code) == pc' = "done" /\ exit_code' = code

----------------------------------------------------------------------------
(* Strings: sequences of characters, with the str methods the scripts use   *)

Range(seq) == {seq[i] : i \in DOMAIN seq}

UpperCase == <<"A", "B", "C", "D", "E", "F", "G", "H", "I", "J", "K", "L", "M">>
             \o <<"N", "O", "P", "Q", "R", "S", "T", "U", "V", "W", "X", "Y", "Z">>
LowerCase == <<"a", "b", "c", "d", "e", "f", "g", "h", "i", "j", "k", "l", "m">>
             \o <<"n", "o", "p", "q", "r", "s", "t", "u", "v", "w", "x", "y", "z">>
Digits == <<"0", "1", "2", "3", "4", "5", "6", "7", "8", "9">>

\* the lower-case form of each upper-case letter
LowerOf ==
    [c \in {UpperCase[i] : i \in DOMAIN UpperCase} |->
        LowerCase[CHOOSE i \in DOMAIN UpperCase : UpperCase[i] = c]]

\* str.lower() on one character
Lower(c) == IF c \in DOMAIN LowerOf THEN LowerOf[c] ELSE c

LowerStr(s) == [i \in 1..Len(s) |-> Lower(s[i])]

\* t in s
IsSubstr(t, s) ==
    \E i \in 0..(Len(s) - Len(t)) : SubSeq(s, i + 1, i + Len(t)) = t

Whitespace == {" ", "\t", "\n"}

\* not s.strip()
IsBlank(s) == \A i \in 1..Len(s) : s[i] \in Whitespace

\* every character of `set` replaced by `by` (re.sub of a class, str.replace)
ReplaceIn(s, set, by) == [i \in 1..Len(s) |-> IF s[i] \in set THEN by ELSE s[i]]

RECURSIVE SplitFrom(_, _, _, _)
SplitFrom(s, seps, i, cur) ==
    IF i > Len(s) THEN <<cur>>
    ELSE IF s[i] \in seps THEN <<cur>> \o SplitFrom(s, seps, i + 1, <<>>)
    ELSE SplitFrom(s, seps, i + 1, Append(cur, s[i]))

\* s.split(sep): the pieces between separators, empty pieces kept
SplitOn(s, seps) == SplitFrom(s, seps, 1, <<>>)

\* s.split(): the pieces between runs of whitespace, no empty piece
SplitWs(s) == SelectSeq(SplitOn(s, Whitespace), LAMBDA w : w # <<>>)

RECURSIVE LStrip(_, _)
LStrip(s, set) ==
    IF s # <<>> /\ Head(s) \in set THEN LStrip(Tail(s), set) ELSE s

RECURSIVE RStrip(_, _)
RStrip(s, set) ==
    IF s # <<>> /\ s[Len(s)] \in set
    THEN RStrip(SubSeq(s, 1, Len(s) - 1), set) ELSE s

Strip(s, set) == LStrip(RStrip(s, set), set)

\* str(n) for a natural number n
RECURSIVE Str(_)
Str(n) ==
    LET digit(d) == SubSeq(Digits, d + 1, d + 1)
    IN  IF n < 10 THEN digit(n) ELSE Str(n \div 10) \o digit(n % 10)

\* s.startswith(p)
StartsWith(s, p) == Len(p) <= Len(s) /\ SubSeq(s, 1, Len(p)) = p

\* sep.join(parts)
RECURSIVE Join(_, _)
Join(parts, sep) ==
    IF parts = <<>> THEN <<>>
    ELSE IF Len(parts) = 1 THEN parts[1]
    ELSE parts[1] \o sep \o Join(Tail(parts), sep)

\* s[:n]
Take(s, n) == SubSeq(s, 1, IF Len(s) < n THEN Len(s) ELSE n)

\* s[-n:]
LastN(s, n) == SubSeq(s, IF Len(s) > n THEN Len(s) - n + 1 ELSE 1, Len(s))

----------------------------------------------------------------------------
(* doc-check-hook.py                                                        *)

REQUIRED_DOCS ==
    << <<"README.md", "project description, features, architecture, usage">>,
       <<"INSTALLATION.md", "installation guide using uv for Python">>,
       <<"METHODS.md", "algorithms, methods, key design decisions">>,
       <<"TODO.md", "outstanding issues and planned work">> >>

\* the names whose presence makes a directory a project
ProjectMarkers ==
    {".git", "src", "package.json", "pyproject.toml", "setup.py",
     "Cargo.toml", "go.mod", "CLAUDE.md"}

DocNames == {REQUIRED_DOCS[i][1] : i \in 1..Len(REQUIRED_DOCS)}

\* the directories of the modelled file system; every other path is absent
IsDir(path) == path = <<"/proj">>

\* Path(p).name
PathName(path) == IF path = <<"/proj">> THEN <<"proj">> ELSE path

\* json.load(sys.stdin) under try/except: anything that is not JSON exits 0
DcParse ==
    /\ script = "doc-check" /\ pc = "start"
    /\ IF stdin.kind = "notjson"
       THEN Exit(0)
       ELSE pc' = "parsed" /\ UNCHANGED exit_code
    /\ UNCHANGED <<script, stdin, env_project_dir, stdout, docVars, notDoc>>

\* the project directory main() settles on: the environment variable when
\* set, else the input's cwd (default "")
DcProjectDirValue ==
    IF env_project_dir # <<>> THEN JStr(env_project_dir[1])
    ELSE Get(stdin.cwd, JStr(<<>>))

\* lines 37-43: input_data.get is evaluated before os.environ.get is called,
\* so a non-object document raises whatever the environment holds
DcProjectDir ==
    /\ script = "doc-check" /\ pc = "parsed"
    /\ IF stdin.kind # "object" THEN Exit(1)
       ELSE IF ~DcProjectDirValue.t THEN Exit(0)
       ELSE IF DcProjectDirValue.k # "string" THEN Exit(1)
       ELSE IF ~IsDir(DcProjectDirValue.s) THEN Exit(0)
       ELSE pc' = "is_project" /\ UNCHANGED exit_code
    /\ UNCHANGED <<script, stdin, env_project_dir, stdout, docVars, notDoc>>

IsProject == proj_files \cap ProjectMarkers # {}

\* lines 47-61
DcIsProject ==
    /\ script = "doc-check" /\ pc = "is_project"
    /\ IF ~IsProject THEN Exit(0) /\ UNCHANGED <<missing, doc_i>>
       ELSE pc' = "scan" /\ missing' = <<>> /\ doc_i' = 1
            /\ UNCHANGED exit_code
    /\ UNCHANGED <<script, stdin, env_project_dir, stdout, proj_files, notDoc>>

\* a scan that never reports the last entry of REQUIRED_DOCS
DocIsMissingButLast(i) ==
    i < Len(REQUIRED_DOCS) /\ REQUIRED_DOCS[i][1] \notin proj_files

\* whether the loop body appends REQUIRED_DOCS[i] to missing
DocIsMissing(i) == REQUIRED_DOCS[i][1] \notin proj_files

\* lines 62-64: one iteration of the loop over REQUIRED_DOCS
DcScan ==
    /\ script = "doc-check" /\ pc = "scan"
    /\ doc_i <= Len(REQUIRED_DOCS)
    /\ missing' = IF DocIsMissing(doc_i)
                  THEN Append(missing, REQUIRED_DOCS[doc_i])
                  ELSE missing
    /\ doc_i' = doc_i + 1
    /\ UNCHANGED <<procVars, proj_files, notDoc>>

\* lines 66-86: nothing when missing is empty, else one SessionStart document
DcReport ==
    /\ script = "doc-check" /\ pc = "scan"
    /\ doc_i > Len(REQUIRED_DOCS)
    /\ stdout' = IF missing = <<>> THEN stdout
                 ELSE Append(stdout,
                        [hookEventName |-> "SessionStart",
                         project_name |-> PathName(DcProjectDirValue.s),
                         missing_list |-> missing])
    /\ Exit(0)
    /\ UNCHANGED <<script, stdin, env_project_dir, docVars, notDoc>>

DocNext == DcParse \/ DcProjectDir \/ DcIsProject \/ DcScan \/ DcReport

----------------------------------------------------------------------------
(* index-search-hook.py                                                     *)
(* A directory is the sequence of its Path.parts, the root being <<"/">>;   *)
(* the empty sequence is the empty string.                                  *)

\* Path.parents: the ancestors, nearest first
Parents(p) == [i \in 1..(Len(p) - 1) |-> SubSeq(p, 1, Len(p) - i)]

\* (d / ".claude" / "repo-index").is_dir()
HasIndex(d) == d \in indexed

\* line 49: the walk stops once the parent just examined is the home directory
StopAtHome(parent) == parent = home_dir

\* lines 44-50: the loop over cwd.parents from its i-th element on; examined
\* lists every directory whose index was looked for, with the step that did
RECURSIVE WalkParents(_, _, _)
WalkParents(ps, i, examined) ==
    IF i > Len(ps)
    THEN [found |-> FALSE, dir |-> <<>>, examined |-> examined]
    ELSE LET ex == Append(examined, [dir |-> ps[i], via |-> "parent"]) IN
         IF HasIndex(ps[i])
         THEN [found |-> TRUE, dir |-> ps[i], examined |-> ex]
         ELSE IF StopAtHome(ps[i])
         THEN [found |-> FALSE, dir |-> <<>>, examined |-> ex]
         ELSE WalkParents(ps, i + 1, ex)

\* lines 28-52
FindRepoIndexDir ==
    LET env_set == env_project_dir # <<>> /\ env_project_dir[1] # <<>>
        ex_env == IF env_set
                  THEN << [dir |-> env_project_dir[1], via |-> "env"] >>
                  ELSE <<>>
        ex_cwd == Append(ex_env, [dir |-> cwd_dir, via |-> "cwd"])
    IN  IF env_set /\ HasIndex(env_project_dir[1])
        THEN [found |-> TRUE, dir |-> env_project_dir[1], examined |-> ex_env]
        ELSE IF HasIndex(cwd_dir)
        THEN [found |-> TRUE, dir |-> cwd_dir, examined |-> ex_cwd]
        ELSE WalkParents(Parents(cwd_dir), 1, ex_cwd)

\* the characters line 63 replaces by a space
RegexMeta ==
    {"\\", ".", "*", "+", "?", "^", "$", "{", "}", "(", ")", "|", "[", "]"}

\* lines 64, 67, 76, 84: the least length of a search term
MinTermLen == 3

\* line 84: path parts that are never search terms
PathStoplist ==
    { <<"s", "r", "c">>, <<"l", "i", "b">>, <<"u", "s", "r">>,
      <<"v", "a", "r">>, <<"t", "m", "p">>, <<"U", "s", "e", "r", "s">> }

\* lines 60-68
GrepTerms(pattern) ==
    LET clean == ReplaceIn(pattern, RegexMeta, " ")
        words == {w \in Range(SplitWs(clean)) : Len(w) >= MinTermLen}
    IN  words \cup (IF Len(pattern) >= MinTermLen THEN {pattern} ELSE {})

\* lines 71-77
GlobTerms(pattern) ==
    LET parts == SplitOn(ReplaceIn(pattern, {"*", "?"}, " "), {"/"})
    IN  UNION { {Strip(w, {"."}) :
                    w \in {x \in Range(SplitWs(parts[i])) :
                              Len(Strip(x, {"."})) >= MinTermLen}} :
                i \in 1..Len(parts) }

\* Path(path).parts without the root, which is shorter than any term: the
\* pieces between slashes, empty pieces and "." dropped
PathParts(path) ==
    SelectSeq(SplitOn(path, {"/"}), LAMBDA p : p # <<>> /\ p # <<".">>)

\* lines 80-85
PathTerms(path) ==
    {p \in Range(PathParts(path)) : Len(p) >= MinTermLen /\ p \notin PathStoplist}

\* lines 55-87.  raised: tool_input is not a dict (.get), or a truthy pattern
\* or path is not a string (re.sub, .replace, Path)
ExtractSearchTerms(doc) ==
    LET tool == doc.tool_name.s
        is_dict == doc.tool_input.k \in {"absent", "object"}
        pattern == Get(doc.pattern, JStr(<<>>))
        path == Get(doc.path, JStr(<<>>))
        bad(v) == v.t /\ v.k # "string"
        from_pattern ==
            IF ~pattern.t THEN {}
            ELSE IF tool = <<"Grep">> THEN GrepTerms(pattern.s)
            ELSE IF tool = <<"Glob">> THEN GlobTerms(pattern.s)
            ELSE {}
        from_path == IF path.t THEN PathTerms(path.s) ELSE {}
    IN  IF ~is_dict \/ bad(pattern) \/ bad(path)
        THEN [raised |-> TRUE, terms |-> {}]
        ELSE [raised |-> FALSE, terms |-> from_pattern \cup from_path]

\* line 90: the budget of reported lines
MaxLines == 30

\* lines 95-99
IndexFiles ==
    << <<"symbols.txt", "[Symbols]">>,
       <<"file-tree.txt", "[Files]">>,
       <<"dependencies.txt", "[Dependencies]">> >>

IndexFileNames == {IndexFiles[i][1] : i \in 1..Len(IndexFiles)}

\* a cap that hands the whole budget to every file
WholeBudget == MaxLines

\* line 128: how many matched lines of one file are reported
PerFileCap == MaxLines \div Len(IndexFiles)

\* lines 118-124: whether a line of an index file is collected
LineMatches(line, ts) ==
    /\ ~(line # <<>> /\ Head(line) = "#")
    /\ ~IsBlank(line)
    /\ \E t \in ts : IsSubstr(LowerStr(t), LowerStr(line))

\* lines 137-141
IxParse ==
    /\ script = "index-search" /\ pc = "start"
    /\ IF stdin.kind = "notjson"
       THEN Exit(0)
       ELSE pc' = "parsed" /\ UNCHANGED exit_code
    /\ UNCHANGED <<script, stdin, env_project_dir, stdout, notIdx, idxVars>>

\* lines 143-148: .get on a document that is not an object raises
IxToolCheck ==
    /\ script = "index-search" /\ pc = "parsed"
    /\ IF stdin.kind # "object" THEN Exit(1)
       ELSE IF ~(/\ stdin.tool_name.k = "string"
                 /\ stdin.tool_name.s \in {<<"Grep">>, <<"Glob">>})
       THEN Exit(0)
       ELSE pc' = "find" /\ UNCHANGED exit_code
    /\ UNCHANGED <<script, stdin, env_project_dir, stdout, notIdx, idxVars>>

\* lines 151-153
IxFind ==
    /\ script = "index-search" /\ pc = "find"
    /\ index_dir' = FindRepoIndexDir
    /\ IF ~index_dir'.found THEN Exit(0)
       ELSE pc' = "terms" /\ UNCHANGED exit_code
    /\ UNCHANGED <<script, stdin, env_project_dir, stdout, notIdx,
                   cwd_dir, home_dir, indexed, index_files, terms,
                   sif_f, sif_n, matched, all_matches>>

\* lines 156-158, and lines 92-101 of the search that follows
IxTerms ==
    /\ script = "index-search" /\ pc = "terms"
    /\ LET r == ExtractSearchTerms(stdin) IN
        IF r.raised THEN Exit(1) /\ UNCHANGED <<terms, sif_f, all_matches>>
        ELSE IF r.terms = {}
        THEN Exit(0) /\ terms' = r.terms /\ UNCHANGED <<sif_f, all_matches>>
        ELSE /\ terms' = r.terms
             /\ sif_f' = 1 /\ all_matches' = <<>>
             /\ pc' = "sif_open" /\ UNCHANGED exit_code
    /\ UNCHANGED <<script, stdin, env_project_dir, stdout, notIdx,
                   cwd_dir, home_dir, indexed, index_files, index_dir,
                   sif_n, matched>>

\* lines 103-114: a file that is absent or cannot be read is passed over
SifOpen ==
    /\ script = "index-search" /\ pc = "sif_open"
    /\ sif_f <= Len(IndexFiles)
    /\ IF index_files[IndexFiles[sif_f][1]] # "text"
       THEN sif_f' = sif_f + 1 /\ UNCHANGED <<pc, sif_n, matched>>
       ELSE /\ pc' = "sif_read" /\ sif_n' = 0 /\ matched' = <<>>
            /\ UNCHANGED sif_f
    /\ UNCHANGED <<script, stdin, env_project_dir, exit_code, stdout,
                   notIdx, cwd_dir, home_dir, indexed, index_files,
                   index_dir, terms, all_matches>>

\* the lines an index file is made of
IndexLineChoices ==
    { <<"#", "f", "o", "o">>, <<>>, <<" ">>,
      <<"F", "o", "o", "1">>, <<"b", "a", "z">> }

\* an index file has at most this many lines
MaxFileLines == 11

\* lines 116-124: the next line of the file at hand
SifLine ==
    /\ script = "index-search" /\ pc = "sif_read"
    /\ sif_n < MaxFileLines
    /\ \E line \in IndexLineChoices :
          matched' = IF LineMatches(line, terms)
                     THEN Append(matched, line) ELSE matched
    /\ sif_n' = sif_n + 1
    /\ UNCHANGED <<procVars, notIdx, cwd_dir, home_dir, indexed,
                   index_files, index_dir, terms, sif_f, all_matches>>

\* lines 126-128: the file is exhausted
SifEndOfFile ==
    /\ script = "index-search" /\ pc = "sif_read"
    /\ all_matches' = IF matched # <<>>
                      THEN all_matches \o << <<IndexFiles[sif_f][2]>> >>
                               \o Take(matched, PerFileCap)
                      ELSE all_matches
    /\ pc' = "sif_closed"
    /\ UNCHANGED <<script, stdin, env_project_dir, exit_code, stdout,
                   notIdx, cwd_dir, home_dir, indexed, index_files,
                   index_dir, terms, sif_f, sif_n, matched>>

\* line 103: on to the next index file
SifNextFile ==
    /\ script = "index-search" /\ pc = "sif_closed"
    /\ sif_f' = sif_f + 1 /\ pc' = "sif_open"
    /\ UNCHANGED <<script, stdin, env_project_dir, exit_code, stdout,
                   notIdx, cwd_dir, home_dir, indexed, index_files,
                   index_dir, terms, sif_n, matched, all_matches>>

\* lines 130-133 and 161-178: nothing when no line matched, else one
\* PreToolUse document that allows the tool call
IxEmit ==
    /\ script = "index-search" /\ pc = "sif_open"
    /\ sif_f > Len(IndexFiles)
    /\ stdout' = IF all_matches = <<>> THEN stdout
                 ELSE Append(stdout,
                        [hookEventName |-> "PreToolUse",
                         permissionDecision |-> "allow",
                         terms |-> terms,
                         matches |-> all_matches])
    /\ Exit(0)
    /\ UNCHANGED <<script, stdin, env_project_dir, notIdx, idxVars>>

IdxNext ==
    \/ IxParse \/ IxToolCheck \/ IxFind \/ IxTerms
    \/ SifOpen \/ SifLine \/ SifEndOfFile \/ SifNextFile \/ IxEmit

----------------------------------------------------------------------------
(* session-todo-hook.py                                                     *)
(* A transcript entry is one parsed line of the JSONL file:                 *)
(*   k        its JSON kind ("object", or the kind of a line that is valid  *)
(*            JSON but no object)                                           *)
(*   type     the entry's "type"                                            *)
(*   content  message.content: ck its kind ("list", "string", "absent"),    *)
(*            blocks the list's elements, text the string                   *)
(*   todos    the entry's "todos": tk its kind, items the list's elements   *)
(*   isMeta   the entry's "isMeta"                                          *)
(* A block is [k, type, name, input, text]; a tool input or a snapshot item *)
(* is [k, id, status, subject, description], id being taskId for an input.  *)

Fields(k, id, status, subject, description) ==
    [k |-> k, id |-> id, status |-> status, subject |-> subject,
     description |-> description]

NoFields == Fields("object", JAbsent, JAbsent, JAbsent, JAbsent)

ToolUse(name, input) ==
    [k |-> "object", type |-> "tool_use", name |-> name, input |-> input,
     text |-> <<>>]

TextBlock(text) ==
    [k |-> "object", type |-> "text", name |-> "", input |-> NoFields,
     text |-> text]

Entry(type, blocks) ==
    [k |-> "object", type |-> type, ck |-> "list", blocks |-> blocks,
     text |-> <<>>, tk |-> "absent", items |-> <<>>, isMeta |-> FALSE]

\* dict insertion: created_tasks[tid] = rec
Put(m, key, rec) ==
    [x \in (DOMAIN m) \cup {key} |-> IF x = key THEN rec ELSE m[x]]

\* the state of the first loop of extract_tasks_from_transcript; raised once
\* a .get has met a value that is no dict
TaskState(raised, created, counter) ==
    [raised |-> raised, created |-> created, counter |-> counter]

\* lines 76-83
TaskCreate(st, inp) ==
    LET n == st.counter + 1
        rec == [subject |-> Get(inp.subject, JStr(<<"Unknown task">>)).s,
                description |-> Get(inp.description, JStr(<<>>)).s,
                status |-> <<"pending">>]
    IN  TaskState(FALSE, Put(st.created, Str(n), rec), n)

\* a status written whether or not the update carries one
AlwaysWritten(old, new) == new.s

\* lines 88-95: a field of the record is overwritten when the update's value
\* is truthy, and kept otherwise
Overwritten(old, new) == IF new.t THEN new.s ELSE old

\* lines 85-95
TaskUpdate(st, inp) ==
    LET tid == Get(inp.id, JStr(<<>>))
        known == tid.k = "string" /\ tid.s \in DOMAIN st.created
    IN  IF ~known THEN st
        ELSE [st EXCEPT !.created[tid.s] =
                 [status |-> Overwritten(@.status, Get(inp.status, JStr(<<>>))),
                  subject |-> Overwritten(@.subject, inp.subject),
                  description |-> Overwritten(@.description, inp.description)]]

\* lines 67-95: one block of an assistant entry's content
TaskBlockStep(st, block) ==
    IF st.raised \/ block.k # "object" \/ block.type # "tool_use" THEN st
    ELSE IF block.name \notin {"TaskCreate", "TaskUpdate"} THEN st
    ELSE IF block.input.k # "object" THEN [st EXCEPT !.raised = TRUE]
    ELSE IF block.name = "TaskCreate" THEN TaskCreate(st, block.input)
    ELSE TaskUpdate(st, block.input)

RECURSIVE TaskBlocks(_, _, _)
TaskBlocks(st, blocks, i) ==
    IF i > Len(blocks) THEN st
    ELSE TaskBlocks(TaskBlockStep(st, blocks[i]), blocks, i + 1)

\* lines 58-95: one entry of the transcript
TaskEntryStep(st, entry) ==
    IF st.raised THEN st
    ELSE IF entry.k # "object" THEN [st EXCEPT !.raised = TRUE]
    ELSE IF entry.type # "assistant" \/ entry.ck # "list" THEN st
    ELSE TaskBlocks(st, entry.blocks, 1)

RECURSIVE TaskEntries(_, _, _)
TaskEntries(st, es, i) ==
    IF i > Len(es) THEN st
    ELSE TaskEntries(TaskEntryStep(st, es[i]), es, i + 1)

\* line 101: the entry carries a non-empty list of todos
HasTodos(entry) == entry.tk = "list" /\ entry.items # <<>>

\* lines 98-103: the todos of the last entry that has some, <<>> for None
RECURSIVE LastTodos(_, _)
LastTodos(es, i) ==
    IF i < 1 THEN <<>>
    ELSE IF HasTodos(es[i]) THEN es[i].items
    ELSE LastTodos(es, i - 1)

\* a snapshot laid over the records the tool calls left
KeepCreated(created) == created

\* line 107: created_tasks.clear()
Cleared(created) == <<>>

\* lines 109-114: one item of the snapshot
SnapshotItem(st, todo) ==
    IF st.raised THEN st
    ELSE IF todo.k # "object" THEN [st EXCEPT !.raised = TRUE]
    ELSE LET tid == Get(todo.id,
                        JStr(Str(Cardinality(DOMAIN st.created) + 1))).s
             rec == [subject |-> Get(todo.subject, JStr(<<"Unknown">>)).s,
                     description |-> Get(todo.description, JStr(<<>>)).s,
                     status |-> Get(todo.status, JStr(<<"pending">>)).s]
         IN  [st EXCEPT !.created = Put(@, tid, rec)]

RECURSIVE SnapshotItems(_, _, _)
SnapshotItems(st, todos, i) ==
    IF i > Len(todos) THEN st
    ELSE SnapshotItems(SnapshotItem(st, todos[i]), todos, i + 1)

\* lines 105-116
ApplySnapshot(st, last_todos) ==
    IF st.raised \/ last_todos = <<>> THEN st
    ELSE SnapshotItems([st EXCEPT !.created = Cleared(@)], last_todos, 1)

\* lines 50-116: extract_tasks_from_transcript(entries)
ExtractTasks(es) ==
    ApplySnapshot(TaskEntries(TaskState(FALSE, <<>>, 0), es, 1),
                  LastTodos(es, Len(es)))

(* extract_tasks_from_transcript on a transcript that is read entry by      *)
(* entry: the first loop has handled the entries read so far                *)

\* the entries a transcript is made of
IdOne == JStr(Str(1))
IdTwo == JStr(Str(2))
InProgress == JStr(<<"in_progress">>)
Completed == JStr(<<"completed">>)

TaskInputs ==
    { ToolUse("TaskCreate", Fields("object", JAbsent, JAbsent, s, JAbsent)) :
        s \in {JAbsent, JStr(<<"A">>)} }
    \cup
    { ToolUse("TaskUpdate", Fields("object", id, st,
                 IF st = JAbsent THEN JStr(<<"B">>) ELSE JAbsent,
                 IF st = JAbsent THEN JStr(<<"D">>) ELSE JAbsent)) :
        id \in {IdOne, IdTwo}, st \in {JAbsent, InProgress, Completed} }

ItemOne == Fields("object", IdOne, Completed, JStr(<<"S">>), JAbsent)
ItemTwo == Fields("object", IdTwo, JAbsent, JAbsent, JStr(<<"E">>))
ItemNoId == Fields("object", JAbsent, InProgress, JStr(<<"N">>), JAbsent)

SnapshotLists ==
    { <<ItemOne>>, <<ItemTwo>>, <<ItemNoId>>, <<ItemOne, ItemTwo>>,
      <<ItemTwo, ItemNoId>>, <<ItemNoId, ItemOne>> }

WithTodos(entry, tk, items) == [entry EXCEPT !.tk = tk, !.items = items]

TaskEntryChoices ==
    { Entry("assistant", <<b>>) : b \in TaskInputs }
    \cup { WithTodos(Entry("user", <<>>), "list", l) : l \in SnapshotLists }
    \cup { WithTodos(Entry("user", <<>>), "list", <<>>),
           WithTodos(Entry("assistant", <<>>), "object", <<ItemOne>>),
           Entry("user", <<ToolUse("TaskCreate", NoFields)>>),
           [Entry("assistant", <<>>) EXCEPT !.ck = "string"] }

\* a transcript has at most this many entries
MaxEntries == 3

\* lines 58-95 for the next entry of the transcript
TkEntry ==
    /\ script = "extract_tasks" /\ pc = "scan"
    /\ Len(entries) < MaxEntries
    /\ \E e \in TaskEntryChoices :
          /\ entries' = Append(entries, e)
          /\ LET st == TaskEntryStep(
                          TaskState(FALSE, created_tasks, task_counter), e)
             IN  created_tasks' = st.created /\ task_counter' = st.counter
    /\ UNCHANGED <<procVars, notTodo, tasks, mentionVars, mainVars>>

\* lines 97-116 once the transcript is exhausted
TkReturn ==
    /\ script = "extract_tasks" /\ pc = "scan"
    /\ LET st == ApplySnapshot(
                    TaskState(FALSE, created_tasks, task_counter),
                    LastTodos(entries, Len(entries)))
       IN  tasks' = st.created /\ created_tasks' = st.created
    /\ pc' = "returned"
    /\ UNCHANGED <<script, stdin, env_project_dir, exit_code, stdout,
                   notTodo, entries, task_counter, mentionVars, mainVars>>

TasksNext == TkEntry \/ TkReturn

----------------------------------------------------------------------------
(* extract_outstanding_mentions                                             *)

\* lines 164-167: done_prefixes, matched ignoring case at the start
DonePrefixes ==
    { <<"d", "o", "n", "e">>, <<"c", "o", "m", "p", "l", "e", "t", "e", "d">>, <<"f", "i", "n", "i", "s", "h", "e", "d">>, <<"f", "i", "x", "e", "d">>, <<"r", "e", "s", "o", "l", "v", "e", "d">>,
      <<"i", "m", "p", "l", "e", "m", "e", "n", "t", "e", "d">>, <<"c", "r", "e", "a", "t", "e", "d">>, <<"a", "d", "d", "e", "d">>, <<"u", "p", "d", "a", "t", "e", "d">>, <<"a", "l", "r", "e", "a", "d", "y">> }

\* line 185: done_prefixes.match(line)
DoneMatch(line) ==
    LET lowered == LowerStr(LStrip(line, Whitespace))
    IN  \E p \in DonePrefixes : StartsWith(lowered, p)

\* line 190: the strong markers, matched as whole words in their own case
StrongMarkers == { <<"T", "O", "D", "O">>, <<"F", "I", "X", "M", "E">>, <<"H", "A", "C", "K">>, <<"X", "X", "X">> }

\* the characters \b does not separate
WordChars ==
    Range(UpperCase) \cup Range(LowerCase) \cup Range(Digits) \cup {"_"}

\* the word w stands in s at position i, a word boundary on either side
WordAt(s, w, i) ==
    /\ SubSeq(s, i, i + Len(w) - 1) = w
    /\ i = 1 \/ s[i - 1] \notin WordChars
    /\ i + Len(w) > Len(s) \/ s[i + Len(w)] \notin WordChars

\* lines 189-192
StrongMatch(line) ==
    \E w \in StrongMarkers :
        \E i \in 1..(Len(line) - Len(w) + 1) : WordAt(line, w, i)

\* lines 196-198: the weak phrases, matched anywhere ignoring case
WeakPhrases ==
    { <<"s", "t", "i", "l", "l", " ", "n", "e", "e", "d", " ", "t", "o">>, <<"n", "e", "e", "d", "s", " ", "t", "o", " ", "b", "e">>, <<"s", "h", "o", "u", "l", "d", " ", "s", "t", "i", "l", "l">>,
      <<"n", "o", "t", " ", "y", "e", "t", " ", "i", "m", "p", "l", "e", "m", "e", "n", "t", "e", "d">>, <<"r", "e", "m", "a", "i", "n", "s", " ", "t", "o", " ", "b", "e">>, <<"o", "u", "t", "s", "t", "a", "n", "d", "i", "n", "g", " ", "i", "s", "s", "u", "e">>,
      <<"i", "n", "c", "o", "m", "p", "l", "e", "t", "e">>, <<"u", "n", "f", "i", "n", "i", "s", "h", "e", "d">>, <<"c", "o", "u", "l", "d", "n", "'", "t">>, <<"w", "a", "s", " ", "n", "o", "t", " ", "a", "b", "l", "e", " ", "t", "o">>,
      <<"f", "a", "i", "l", "e", "d", " ", "t", "o">>, <<"b", "l", "o", "c", "k", "e", "d", " ", "b", "y">> }

\* lines 195-201
WeakMatch(line) ==
    LET lowered == LowerStr(line)
    IN  \E p \in WeakPhrases : IsSubstr(p, lowered)

\* line 205: a mention is longer than MinMentionLen, shorter than MaxMentionLen
MinMentionLen == 10
MaxMentionLen == 300

\* lines 185-205: the stripped line is taken for an outstanding mention
Flagged(line) ==
    /\ ~DoneMatch(line)
    /\ StrongMatch(line) \/ WeakMatch(line)
    /\ MinMentionLen < Len(line) /\ Len(line) < MaxMentionLen

\* a line recorded in `seen` as it stands
Verbatim(line) == line

\* line 206: normalized = line_stripped.lower()
Normalized(line) == LowerStr(line)

\* the locals of extract_outstanding_mentions
MentionState(ms, sn) == [mentions |-> ms, seen |-> sn]

\* lines 182-209: one line of a text block
MentionLine(st, line) ==
    LET line_stripped == Strip(line, Whitespace)
    IN  IF Flagged(line_stripped) /\ Normalized(line_stripped) \notin st.seen
        THEN MentionState(Append(st.mentions, line_stripped),
                          st.seen \cup {Normalized(line_stripped)})
        ELSE st

RECURSIVE MentionLines(_, _, _)
MentionLines(st, lines, i) ==
    IF i > Len(lines) THEN st
    ELSE MentionLines(MentionLine(st, lines[i]), lines, i + 1)

\* lines 177-209: one block of an assistant entry's content
MentionBlock(st, block) ==
    IF block.k # "object" \/ block.type # "text" THEN st
    ELSE MentionLines(st, SplitOn(block.text, {"\n"}), 1)

RECURSIVE MentionBlocks(_, _, _)
MentionBlocks(st, blocks, i) ==
    IF i > Len(blocks) THEN st
    ELSE MentionBlocks(MentionBlock(st, blocks[i]), blocks, i + 1)

\* lines 169-209: one entry of the transcript (an object: main has run
\* extract_tasks_from_transcript over the same entries before)
MentionEntryStep(st, entry) ==
    IF entry.type # "assistant" \/ entry.ck # "list" THEN st
    ELSE MentionBlocks(st, entry.blocks, 1)

RECURSIVE MentionEntries(_, _, _)
MentionEntries(st, es, i) ==
    IF i > Len(es) THEN st
    ELSE MentionEntries(MentionEntryStep(st, es[i]), es, i + 1)

\* line 212: only the last MentionCap mentions are returned
MentionCap == 20

\* lines 158-212: extract_outstanding_mentions(entries)
ExtractMentions(es) ==
    LastN(MentionEntries(MentionState(<<>>, {}), es, 1).mentions, MentionCap)

(* extract_outstanding_mentions on a transcript that is read entry by       *)
(* entry.  The n-th fresh line is "TODO: fix n"; any other entry is one of  *)
(* OtherEntries, and a transcript has one such entry at most.               *)

FreshLine(n) == <<"T", "O", "D", "O", ":", " ", "f", "i", "x", " ">> \o Str(n)
ShoutedLine(n) == <<"T", "O", "D", "O", ":", " ", "F", "I", "X", " ">> \o Str(n)

Says(type, text) == Entry(type, <<TextBlock(text)>>)

FreshEntry(n) == Says("assistant", FreshLine(n))

\* a transcript has at most this many fresh lines
MaxFresh == 21

IsFresh(e) ==
    /\ e.type = "assistant" /\ e.blocks # <<>>
    /\ StartsWith(e.blocks[1].text, <<"T", "O", "D", "O", ":", " ", "f", "i", "x", " ">>)

FreshCount(es) == Len(SelectSeq(es, IsFresh))

\* a transcript has at most one entry that is not a fresh line
AllFresh(es) == \A i \in DOMAIN es : IsFresh(es[i])

\* entries other than the next fresh line, after n fresh lines
OtherEntries(n) ==
    { Says("assistant", ShoutedLine(n)),
      Says("assistant", <<" ", " ", "T", "O", "D", "O", ":", " ", "f", "i", "x", " ", "1", " ", "\n", "I", "t", " ", "F", "a", "i", "l", "e", "d", " ", "T", "o", " ", "b", "u", "i", "l", "d">>),
      Says("assistant", <<"F", "i", "x", "e", "d", " ", "t", "h", "e", " ", "T", "O", "D", "O", ":", " ", "f", "i", "x", " ", "1">>),
      Says("assistant", <<"T", "O", "D", "O", "S", ":", " ", "f", "i", "x", " ", "1">>),
      Says("assistant", <<"T", "O", "D", "O", ":", " ", "a">>),
      Says("user", <<"F", "I", "X", "M", "E", ":", " ", "f", "i", "x", " ", "1">>),
      Entry("assistant", <<ToolUse("Bash", NoFields)>>) }

\* lines 169-209 for the next entry of the transcript
MnEntry ==
    /\ script = "extract_mentions" /\ pc = "scan"
    /\ \E e \in {FreshEntry(FreshCount(entries) + 1)}
                  \cup OtherEntries(FreshCount(entries)) :
          /\ IF IsFresh(e) THEN FreshCount(entries) < MaxFresh
                           ELSE AllFresh(entries)
          /\ entries' = Append(entries, e)
          /\ LET st == MentionEntryStep(MentionState(mention_list, seen), e)
             IN  mention_list' = st.mentions /\ seen' = st.seen
    /\ UNCHANGED <<procVars, notTodo, created_tasks, task_counter, tasks,
                   mentions, mainVars>>

\* line 212 once the transcript is exhausted
MnReturn ==
    /\ script = "extract_mentions" /\ pc = "scan"
    /\ mentions' = LastN(mention_list, MentionCap)
    /\ pc' = "returned"
    /\ UNCHANGED <<script, stdin, env_project_dir, exit_code, stdout,
                   notTodo, taskVars, mention_list, seen, mainVars>>

MentionsNext == MnEntry \/ MnReturn

----------------------------------------------------------------------------
(* parse_transcript.  A line of the transcript file is a record shaped as   *)
(* an entry whose k tells what the line is: "blank" for a line that strips  *)
(* to nothing, "garbage" for one json.loads rejects, else the JSON kind.    *)

TranscriptLine(kind) == [Entry("", <<>>) EXCEPT !.k = kind]

\* lines 37-44: blank lines and lines that are no JSON are skipped
ParseTranscript(lines) ==
    SelectSeq(lines, LAMBDA l : l.k \notin {"blank", "garbage"})

\* the paths of the modelled file system other than the project directory
TranscriptFile == <<"/t.jsonl">>

\* what Path(p) is: a regular file, a directory, or nothing
PathKind(path) ==
    IF path = TranscriptFile THEN "file"
    ELSE IF IsDir(path) THEN "dir"
    ELSE "missing"

(* extract_user_requests                                                    *)

\* lines 144-147
RequestTags ==
    { <<"<", "c", "o", "m", "m", "a", "n", "d", "-", "m", "e", "s", "s", "a", "g", "e", ">">>, <<"<", "c", "o", "m", "m", "a", "n", "d", "-", "n", "a", "m", "e", ">">>,
      <<"<", "l", "o", "c", "a", "l", "-", "c", "o", "m", "m", "a", "n", "d", "-", "s", "t", "d", "o", "u", "t", ">">>, <<"<", "s", "y", "s", "t", "e", "m", "-", "r", "e", "m", "i", "n", "d", "e", "r", ">">> }

\* line 141: a request is at least this long once stripped
MinRequestLen == 3

\* line 119: max_messages
MaxRequests == 10

\* lines 130-138: the texts of the blocks of a content list
RECURSIVE RequestTexts(_, _)
RequestTexts(blocks, i) ==
    IF i > Len(blocks) THEN <<>>
    ELSE (IF blocks[i].k = "string"
             \/ (blocks[i].k = "object" /\ blocks[i].type = "text")
          THEN <<blocks[i].text>> ELSE <<>>)
         \o RequestTexts(blocks, i + 1)

\* lines 126-139: message.content, a list's texts joined by one space
RequestContent(entry) ==
    IF entry.ck = "list" THEN Join(RequestTexts(entry.blocks, 1), <<" ">>)
    ELSE IF entry.ck = "string" THEN entry.text
    ELSE <<>>

RequestState(raised, msgs) == [raised |-> raised, msgs |-> msgs]

\* lines 122-153: one entry of the transcript; a content that is neither a
\* string nor a list (ck = "number", not zero) has no strip method
RequestEntryStep(st, entry) ==
    IF st.raised \/ entry.type # "user" THEN st
    ELSE IF entry.ck = "number" THEN [st EXCEPT !.raised = TRUE]
    ELSE LET req == RequestContent(entry)
         IN  IF req = <<>> \/ Len(Strip(req, Whitespace)) < MinRequestLen
             THEN st
             ELSE IF \E tag \in RequestTags : IsSubstr(tag, req) THEN st
             ELSE IF entry.isMeta THEN st
             ELSE [st EXCEPT !.msgs = Append(@, Strip(req, Whitespace))]

RECURSIVE RequestEntries(_, _, _)
RequestEntries(st, es, i) ==
    IF i > Len(es) THEN st
    ELSE RequestEntries(RequestEntryStep(st, es[i]), es, i + 1)

\* lines 119-155: extract_user_requests(entries)
ExtractUserRequests(es) ==
    LET st == RequestEntries(RequestState(FALSE, <<>>), es, 1)
    IN  RequestState(st.raised, LastN(st.msgs, MaxRequests))

(* build_todo_content.  The text is a sequence of characters and of longer  *)
(* pieces the code never looks inside; a newline is always an element of    *)
(* its own.  The pieces ":in_progress:", ":open:" and " -- " stand for the  *)
(* two status icons and for the dash between subject and description.       *)

\* lines 223-226
Incomplete(ts) ==
    { tid \in DOMAIN ts : ts[tid].status \notin {<<"completed">>, <<"deleted">>} }

\* a gate that lets every session through
NeverSkipped(incomplete_tasks, ms) == FALSE

\* line 229: not incomplete_tasks and not mentions
NothingOutstanding(incomplete_tasks, ms) == incomplete_tasks = {} /\ ms = <<>>

\* line 234: session_id[:8]
SessionIdLen == 8
\* line 244: task["description"][:200]
DescriptionLen == 200
\* line 263: req[:150]
RequestLen == 150
\* line 261: user_requests[-5:]
ShownRequests == 5

\* s[:n], with "..." appended when that cut something off
Truncated(s, n) == Take(s, n) \o (IF Len(s) > n THEN <<"...">> ELSE <<>>)

\* the order of the characters task ids are made of
Alphabet == Digits \o UpperCase \o <<"_">> \o LowerCase
CharCode(c) == CHOOSE i \in DOMAIN Alphabet : Alphabet[i] = c

\* a < b for two strings
RECURSIVE StrLess(_, _)
StrLess(a, b) ==
    IF a = <<>> THEN b # <<>>
    ELSE IF b = <<>> THEN FALSE
    ELSE IF Head(a) = Head(b) THEN StrLess(Tail(a), Tail(b))
    ELSE CharCode(Head(a)) < CharCode(Head(b))

\* line 239: sorted(incomplete_tasks.items()), the ids
RECURSIVE SortedIds(_)
SortedIds(ids) ==
    IF ids = {} THEN <<>>
    ELSE LET least == CHOOSE x \in ids : \A y \in ids \ {x} : StrLess(x, y)
         IN  <<least>> \o SortedIds(ids \ {least})

\* line 232: datetime.now().strftime(...), the minute count in decimal
Stamp(clock) == Str(clock)

\* line 234
SessionHeader(clock, session_tag) ==
    <<"\n", "## Session ">> \o Stamp(clock) \o <<" (">>
        \o session_tag \o <<")">>

\* lines 240-248
TaskLine(task) ==
    <<"- [ ] ",
      IF task.status = <<"in_progress">> THEN ":in_progress:" ELSE ":open:",
      " ">>
    \o task.subject
    \o (IF task.description # <<>>
        THEN <<" -- ">> \o Truncated(task.description, DescriptionLen)
        ELSE <<>>)

\* lines 255-256
MentionOut(mention) ==
    <<"- [ ] ">>
    \o Strip(LStrip(mention, {"-", " ", "*", ">", "#"}), Whitespace)

\* lines 263-266
RequestOut(req) == <<"- ">> \o Truncated(req, RequestLen)

\* lines 237-267: the lines after the header and its blank line
SectionLines(ts, reqs, ms) ==
    (IF Incomplete(ts) # {}
     THEN << <<"### Incomplete Tasks">> >>
          \o [i \in 1..Cardinality(Incomplete(ts)) |->
                 TaskLine(ts[SortedIds(Incomplete(ts))[i]])]
          \o << <<>> >>
     ELSE <<>>)
    \o (IF ms # <<>>
        THEN << <<"### Outstanding Items">> >>
             \o [i \in DOMAIN ms |-> MentionOut(ms[i])]
             \o << <<>> >>
        ELSE <<>>)
    \o (IF reqs # <<>>
        THEN << <<"### Last User Requests (context)">> >>
             \o [i \in DOMAIN LastN(reqs, ShownRequests) |->
                    RequestOut(LastN(reqs, ShownRequests)[i])]
             \o << <<>> >>
        ELSE <<>>)

\* lines 215-269: build_todo_content; text is <<>> for None.  A session_id
\* that is neither absent nor a string cannot be sliced and formatted here
BuildTodoContent(ts, reqs, ms, session_id, clock) ==
    IF NothingOutstanding(Incomplete(ts), ms)
    THEN [raised |-> FALSE, text |-> <<>>]
    ELSE IF Get(session_id, JStr(<<"u", "n", "k", "n", "o", "w", "n">>)).k # "string"
    THEN [raised |-> TRUE, text |-> <<>>]
    ELSE [raised |-> FALSE,
          text |-> Join(<< SessionHeader(clock,
                              Take(Get(session_id, JStr(<<"u", "n", "k", "n", "o", "w", "n">>)).s,
                                   SessionIdLen)),
                           <<>> >> \o SectionLines(ts, reqs, ms),
                        <<"\n">>)]

(* write_todo                                                               *)

\* line 282: the header of a new file
Preamble ==
    <<"# TODO", "\n", "\n", "Outstanding issues from Claude Code sessions.",
      "\n">>

\* an existing text taken as it stands
Untrimmed(existing) == existing

\* line 279: existing.rstrip("\n")
Trimmed(existing) == RStrip(existing, {"\n"})

\* lines 276-282
Updated(file, text) ==
    IF file.exists THEN Trimmed(file.text) \o <<"\n">> \o text
    ELSE Preamble \o text

\* Path(project_dir) / "TODO.md" can be written: project_dir is a string
\* naming a directory; else write_todo raises and main passes over it
Writable(project_dir) == project_dir.k = "string" /\ IsDir(project_dir.s)

\* lines 272-284 under the try of lines 322-325
WriteTodo(file, project_dir, text) ==
    IF Writable(project_dir)
    THEN [exists |-> TRUE, text |-> Updated(file, text)]
    ELSE file

(* main                                                                     *)

\* lines 289-292
StParse ==
    /\ script = "session-todo" /\ pc = "start"
    /\ IF stdin.kind = "notjson"
       THEN Exit(0)
       ELSE pc' = "parsed" /\ UNCHANGED exit_code
    /\ UNCHANGED <<script, stdin, env_project_dir, stdout, notTodo, todoVars>>

\* line 299: os.environ.get("CLAUDE_PROJECT_DIR", cwd)
StProjectDir ==
    IF env_project_dir # <<>> THEN JStr(env_project_dir[1])
    ELSE Get(stdin.cwd, JStr(<<>>))

\* lines 294-304: a document that is no object has no get; Path() takes a
\* string only
StInputs ==
    /\ script = "session-todo" /\ pc = "parsed"
    /\ LET transcript_path == Get(stdin.transcript_path, JStr(<<>>))
       IN  IF stdin.kind # "object" THEN Exit(1)
           ELSE IF ~StProjectDir.t THEN Exit(0)
           ELSE IF ~transcript_path.t THEN Exit(0)
           ELSE IF transcript_path.k # "string" THEN Exit(1)
           ELSE IF PathKind(transcript_path.s) = "missing" THEN Exit(0)
           ELSE pc' = "read" /\ UNCHANGED exit_code
    /\ UNCHANGED <<script, stdin, env_project_dir, stdout, notTodo, todoVars>>

\* lines 307-309: open() of a directory raises inside parse_transcript, which
\* then returns no entry
StReadTranscript ==
    /\ script = "session-todo" /\ pc = "read"
    /\ entries' = IF PathKind(stdin.transcript_path.s) = "file"
                  THEN ParseTranscript(transcript) ELSE <<>>
    /\ IF entries' = <<>> THEN Exit(0)
       ELSE pc' = "extract" /\ UNCHANGED exit_code
    /\ UNCHANGED <<script, stdin, env_project_dir, stdout, notTodo,
                   created_tasks, task_counter, tasks, mentionVars, mainVars>>

\* lines 312-314
StExtract ==
    /\ script = "session-todo" /\ pc = "extract"
    /\ LET ts == ExtractTasks(entries)
           reqs == ExtractUserRequests(entries)
       IN  IF ts.raised
           THEN Exit(1) /\ UNCHANGED <<taskVars, mentionVars, user_requests>>
           ELSE /\ tasks' = ts.created
                /\ created_tasks' = ts.created /\ task_counter' = ts.counter
                /\ UNCHANGED entries
                /\ IF reqs.raised
                   THEN Exit(1) /\ UNCHANGED <<mentionVars, user_requests>>
                   ELSE /\ user_requests' = reqs.msgs
                        /\ mentions' = ExtractMentions(entries)
                        /\ UNCHANGED <<mention_list, seen>>
                        /\ pc' = "build" /\ UNCHANGED exit_code
    /\ UNCHANGED <<script, stdin, env_project_dir, stdout, notTodo,
                   transcript, content, todo_file, now, run_no>>

\* lines 317-319
StBuild ==
    /\ script = "session-todo" /\ pc = "build"
    /\ LET built == BuildTodoContent(tasks, user_requests, mentions,
                                     stdin.session_id, now)
       IN  /\ content' = built.text
           /\ IF built.raised THEN Exit(1)
              ELSE IF built.text = <<>> THEN Exit(0)
              ELSE pc' = "write" /\ UNCHANGED exit_code
    /\ UNCHANGED <<script, stdin, env_project_dir, stdout, notTodo,
                   taskVars, mentionVars, transcript, user_requests,
                   todo_file, now, run_no>>

\* lines 322-327
StWrite ==
    /\ script = "session-todo" /\ pc = "write"
    /\ todo_file' = WriteTodo(todo_file, StProjectDir, content)
    /\ Exit(0)
    /\ UNCHANGED <<script, stdin, env_project_dir, stdout, notTodo,
                   taskVars, mentionVars, transcript, user_requests,
                   content, now, run_no>>

(* the sessions of one project: each session-end run is a process of its   *)
(* own, started by the host once the one before has exited                  *)

UserSays(text) == [Entry("user", <<>>) EXCEPT !.ck = "string", !.text = text]

Creates(subject) ==
    ToolUse("TaskCreate", Fields("object", JAbsent, JAbsent, subject, JAbsent))

Updates(id, status) ==
    ToolUse("TaskUpdate", Fields("object", id, status, JAbsent, JAbsent))

\* a request one character longer than what build_todo_content shows of it
LongRequest == [i \in 1..(RequestLen + 1) |-> "r"]

\* transcripts that leave nothing outstanding
QuietTranscripts ==
    { <<TranscriptLine("blank"), TranscriptLine("garbage")>>,
      <<TranscriptLine("blank"), UserSays(<<"p", "l", "e", "a", "s", "e", " ", "f", "i", "x", " ", "t", "h", "e", " ", "b", "u", "i", "l", "d">>)>>,
      <<Entry("assistant", <<Creates(JStr(<<"A">>)), Updates(IdOne, Completed)>>),
        UserSays(<<"<", "s", "y", "s", "t", "e", "m", "-", "r", "e", "m", "i", "n", "d", "e", "r", ">", "g", "o", " ", "o", "n">>),
        [Entry("user", <<TextBlock(<<"g", "o">>), TextBlock(<<"o", "n">>)>>)
            EXCEPT !.isMeta = FALSE],
        UserSays(<<" ", "o", "k", " ">>)>>,
      <<WithTodos(Says("assistant", <<"F", "i", "x", "e", "d", " ", "t", "h", "e", " ", "T", "O", "D", "O", ":", " ", "f", "i", "x", " ", "1">>), "list",
                  <<ItemOne, Fields("object", IdTwo, JStr(<<"deleted">>),
                                    JStr(<<"S">>), JAbsent)>>)>> }

\* transcripts that leave a section to write
LoudTranscripts ==
    { <<Entry("assistant", <<Creates(JStr(<<"A", "\n">>))>>)>>,
      <<Says("assistant", <<"-", " ", "T", "O", "D", "O", ":", " ", "f", "i", "x", " ", "t", "h", "e", " ", "b", "u", "g", "\n", "a", "l", "l", " ", "f", "i", "n", "e">>),
        UserSays(LongRequest)>>,
      <<WithTodos(Says("assistant", <<"i", "t", " ", "F", "A", "I", "L", "E", "D", " ", "T", "O", " ", "b", "u", "i", "l", "d", " ", "n", "o", "w">>), "list",
                  <<ItemNoId, ItemTwo>>),
        UserSays(<<"a", "n", "d", " ", "t", "h", "e", "n", " ", "d", "e", "p", "l", "o", "y">>)>> }

\* transcripts an extraction raises on: a line that is JSON but no object,
\* a user message whose content is a number
BrokenTranscripts ==
    { <<TranscriptLine("number")>>,
      <<[Entry("user", <<>>) EXCEPT !.ck = "number"]>> }

SessionTranscripts ==
    QuietTranscripts \cup LoudTranscripts \cup BrokenTranscripts

PlainTranscript == <<Entry("assistant", <<Creates(JStr(<<"A", "\n">>))>>)>>

\* the document of a session that has everything in place
PlainStdin ==
    [EmptyDoc("object") EXCEPT !.cwd = JStr(<<"/proj">>),
                               !.transcript_path = JStr(TranscriptFile),
                               !.session_id = JStr(<<"a", "b", "c", "d", "e", "f", "g", "h", "i", "j">>)]

\* what one session-end run is started with
SessionInputs ==
    { [stdin |-> EmptyDoc(kind), env |-> <<>>, transcript |-> PlainTranscript] :
        kind \in StdinKinds \ {"object"} }
    \cup
    { [stdin |-> [PlainStdin EXCEPT !.cwd = cwd], env |-> <<>>,
       transcript |-> PlainTranscript] :
        cwd \in {JAbsent, JStr(<<>>), JNum, JStr(<<"/nodir">>)} }
    \cup
    { [stdin |-> [PlainStdin EXCEPT !.cwd = JAbsent], env |-> <<dir>>,
       transcript |-> PlainTranscript] :
        dir \in {<<>>, <<"/proj">>} }
    \cup
    { [stdin |-> [PlainStdin EXCEPT !.transcript_path = path], env |-> <<>>,
       transcript |-> PlainTranscript] :
        path \in {JAbsent, JNum, JStr(<<"/none">>), JStr(<<"/proj">>)} }
    \cup
    { [stdin |-> [PlainStdin EXCEPT !.session_id = id], env |-> <<>>,
       transcript |-> PlainTranscript] :
        id \in {JAbsent, JNum} }
    \cup
    { [stdin |-> PlainStdin, env |-> <<>>, transcript |-> t] :
        t \in SessionTranscripts }

\* a project sees at most this many session-end runs
MaxRuns == 3

\* the host starts the next session-end run, in the same minute or the
\* next: a fresh process with its input, the locals of main not yet assigned
StNextRun ==
    /\ script = "session-todo" /\ pc = "done"
    /\ run_no < MaxRuns
    /\ run_no' = run_no + 1
    /\ now' \in {now, now + 1}
    /\ pc' = "start" /\ exit_code' = -1 /\ stdout' = <<>>
    /\ \E input \in SessionInputs :
          /\ stdin' = input.stdin /\ env_project_dir' = input.env
          /\ transcript' = input.transcript
    /\ entries' = <<>> /\ created_tasks' = <<>> /\ task_counter' = 0
    /\ tasks' = <<>> /\ mention_list' = <<>> /\ seen' = {} /\ mentions' = <<>>
    /\ user_requests' = <<>> /\ content' = <<>>
    /\ UNCHANGED <<script, notTodo, todo_file>>

TodoNext ==
    \/ StParse \/ StInputs \/ StReadTranscript \/ StExtract
    \/ StBuild \/ StWrite \/ StNextRun

\* the cwd fields the host may send to doc-check
DocCwdValues ==
    {JAbsent, JNull, JZero, JNum, JList, JStr(<<>>), JStr(<<"/proj">>),
     JStr(<<"/nodir">>)}

\* at most this many project markers are present in one project directory
MaxMarkers == 1

\* the state of a script that is not the one running
DocIdle == proj_files = {} /\ missing = <<>> /\ doc_i = 1

IdxIdle ==
    /\ cwd_dir = <<"/">> /\ home_dir = <<"/">> /\ indexed = {}
    /\ index_files = [f \in IndexFileNames |-> "absent"]
    /\ index_dir = [found |-> FALSE, dir |-> <<>>, examined |-> <<>>]
    /\ terms = {} /\ sif_f = 1 /\ sif_n = 0
    /\ matched = <<>> /\ all_matches = <<>>

TodoIdle ==
    /\ entries = <<>> /\ created_tasks = <<>> /\ task_counter = 0
    /\ tasks = <<>> /\ transcript = <<>>
    /\ mention_list = <<>> /\ seen = {} /\ mentions = <<>>
    /\ user_requests = <<>> /\ content = <<>>
    /\ todo_file = [exists |-> FALSE, text |-> <<>>]
    /\ now = 0 /\ run_no = 0

DocInit ==
    /\ IdxIdle /\ TodoIdle
    /\ script = "doc-check" /\ pc = "start"
    /\ exit_code = -1 /\ stdout = <<>>
    /\ \E kind \in StdinKinds, cwd \in DocCwdValues :
          /\ stdin = [EmptyDoc(kind) EXCEPT !.cwd = cwd]
          /\ kind # "object" => cwd = JAbsent
    /\ env_project_dir \in {<<>>, << <<>> >>, << <<"/proj">> >>, << <<"/nodir">> >>}
    /\ \E ms \in SUBSET ProjectMarkers, ds \in SUBSET DocNames :
          /\ Cardinality(ms) <= MaxMarkers
          /\ proj_files = ms \cup ds
    /\ missing = <<>> /\ doc_i = 1

SpecDocCheck == DocInit /\ [][DocNext]_vars


\* the directories of the modelled tree
HomeDir == <<"/", "home", "u">>

DirUniverse ==
    { <<"/">>, <<"/", "home">>, HomeDir, <<"/", "home", "u", "p">>,
      <<"/", "home", "u", "p", "s">>, <<"/", "srv">>, <<"/", "srv", "w">> }

\* find_repo_index_dir on every working directory, environment and placement
\* of index directories of the tree; the tool input yields no search term
FindInit ==
    /\ DocIdle /\ TodoIdle
    /\ script = "index-search" /\ pc = "start"
    /\ exit_code = -1 /\ stdout = <<>>
    /\ stdin = [EmptyDoc("object") EXCEPT !.tool_name = JStr(<<"Grep">>)]
    /\ env_project_dir \in {<<>>, << <<>> >>} \cup {<<d>> : d \in DirUniverse}
    /\ cwd_dir \in DirUniverse
    /\ home_dir = HomeDir
    /\ indexed \in SUBSET DirUniverse
    /\ index_files = [f \in IndexFileNames |-> "absent"]
    /\ index_dir = [found |-> FALSE, dir |-> <<>>, examined |-> <<>>]
    /\ terms = {} /\ sif_f = 1 /\ sif_n = 0
    /\ matched = <<>> /\ all_matches = <<>>

FindNext == IxParse \/ IxToolCheck \/ IxFind \/ IxTerms

SpecFind == FindInit /\ [][FindNext]_vars

\* the tool inputs the host may send to index-search
PatFooBar == <<"f", "o", "o", ".", "*", "b", "a", "r">>
PatGlob == <<"s", "r", "c", "/", "*", "*", "/", "*", ".", "f", "o", "o">>
PatShort == <<"a", "b">>
PathUsrQux == <<"/", "u", "s", "r", "/", ".", "/", "q", "u", "x">>

IdxToolInputs ==
    {[tool_input |-> ti, pattern |-> p, path |-> q] :
        ti \in {JAbsent, JDict}, p \in {JAbsent}, q \in {JAbsent}}
    \cup {[tool_input |-> JDict, pattern |-> p, path |-> q] :
        p \in {JAbsent, JNum, JStr(PatFooBar), JStr(PatGlob), JStr(PatShort)},
        q \in {JAbsent, JNum, JStr(PathUsrQux)}}
    \cup {[tool_input |-> ti, pattern |-> JAbsent, path |-> JAbsent] :
        ti \in {JNull, JStr(<<"x">>), JList}}

IdxInit ==
    /\ DocIdle /\ TodoIdle
    /\ script = "index-search" /\ pc = "start"
    /\ exit_code = -1 /\ stdout = <<>>
    /\ \E kind \in StdinKinds,
          tool \in {JAbsent, JNum, JStr(<<"Grep">>), JStr(<<"Glob">>),
                    JStr(<<"Read">>)},
          ti \in IdxToolInputs :
          /\ stdin = [EmptyDoc(kind) EXCEPT !.tool_name = tool,
                         !.tool_input = ti.tool_input,
                         !.pattern = ti.pattern, !.path = ti.path]
          /\ kind # "object" =>
                tool = JAbsent /\ ti.tool_input = JAbsent
          /\ tool.k # "string" => ti.tool_input = JAbsent
    /\ env_project_dir \in {<<>>, << <<"/", "home", "u", "p">> >>}
    /\ cwd_dir = <<"/", "home", "u", "p", "s">>
    /\ home_dir = HomeDir
    /\ indexed \in {{}, {<<"/", "home", "u", "p">>}}
    /\ index_files \in [IndexFileNames -> {"absent", "unreadable", "text"}]
    /\ index_dir = [found |-> FALSE, dir |-> <<>>, examined |-> <<>>]
    /\ terms = {} /\ sif_f = 1 /\ sif_n = 0
    /\ matched = <<>> /\ all_matches = <<>>

SpecIndexSearch == IdxInit /\ [][IdxNext]_vars

TasksInit ==
    /\ DocIdle /\ IdxIdle /\ TodoIdle
    /\ script = "extract_tasks" /\ pc = "scan"
    /\ stdin = EmptyDoc("object") /\ env_project_dir = <<>>
    /\ exit_code = -1 /\ stdout = <<>>

SpecTasks == TasksInit /\ [][TasksNext]_vars

MentionsInit ==
    /\ DocIdle /\ IdxIdle /\ TodoIdle
    /\ script = "extract_mentions" /\ pc = "scan"
    /\ stdin = EmptyDoc("object") /\ env_project_dir = <<>>
    /\ exit_code = -1 /\ stdout = <<>>

SpecMentions == MentionsInit /\ [][MentionsNext]_vars

\* the first session-end run of a project that has no TODO.md
TodoInit ==
    /\ DocIdle /\ IdxIdle
    /\ script = "session-todo" /\ pc = "start"
    /\ exit_code = -1 /\ stdout = <<>>
    /\ \E input \in SessionInputs :
          /\ stdin = input.stdin /\ env_project_dir = input.env
          /\ transcript = input.transcript
    /\ entries = <<>> /\ created_tasks = <<>> /\ task_counter = 0
    /\ tasks = <<>> /\ mention_list = <<>> /\ seen = {} /\ mentions = <<>>
    /\ user_requests = <<>> /\ content = <<>>
    /\ todo_file = [exists |-> FALSE, text |-> <<>>]
    /\ now = 1 /\ run_no = 1

SpecSessionTodo == TodoInit /\ [][TodoNext]_vars

\* the three scripts, each on every input
Init == DocInit \/ IdxInit \/ TodoInit

Next == DocNext \/ IdxNext \/ TodoNext

Spec == Init /\ [][Next]_vars
\* C9: on a recognized project directory the run prints nothing iff all four
\* required files are present; otherwise it prints one SessionStart document
\* whose missing list holds exactly the absent files, each once, in the order
\* of REQUIRED_DOCS, each with its purpose text, and no present file.
RecognizedProject ==
    /\ script = "doc-check" /\ stdin.kind = "object"
    /\ DcProjectDirValue.k = "string" /\ IsDir(DcProjectDirValue.s)
    /\ IsProject

DocIndexOf(entry) == CHOOSE i \in 1..Len(REQUIRED_DOCS) : REQUIRED_DOCS[i] = entry

C9_MissingListExact ==
    (pc = "done" /\ RecognizedProject) =>
        /\ exit_code = 0
        /\ (DocNames \subseteq proj_files) <=> (stdout = <<>>)
        /\ stdout # <<>> =>
            /\ Len(stdout) = 1
            /\ stdout[1].hookEventName = "SessionStart"
            /\ LET m == stdout[1].missing_list IN
                /\ \A j \in 1..Len(m) :
                      \E i \in 1..Len(REQUIRED_DOCS) : m[j] = REQUIRED_DOCS[i]
                /\ \A i \in 1..Len(REQUIRED_DOCS) :
                      (REQUIRED_DOCS[i][1] \notin proj_files)
                          <=> (\E j \in 1..Len(m) : m[j] = REQUIRED_DOCS[i])
                /\ \A j, k \in 1..Len(m) :
                      j < k => DocIndexOf(m[j]) < DocIndexOf(m[k])

C9_Witness ==
    /\ pc = "done" /\ RecognizedProject
    /\ Len(stdout) = 1
    /\ Len(stdout[1].missing_list) = 2
    /\ "TODO.md" \notin proj_files /\ "README.md" \in proj_files

----------------------------------------------------------------------------
(* extract_tasks_from_transcript                                            *)

\* the record a snapshot item stands for, absent fields defaulted
RecordOfItem(item) ==
    [subject |-> IF item.subject = JAbsent THEN <<"Unknown">> ELSE item.subject.s,
     description |-> IF item.description = JAbsent THEN <<>> ELSE item.description.s,
     status |-> IF item.status = JAbsent THEN <<"pending">> ELSE item.status.s]

SnapshotEntries ==
    {i \in 1..Len(entries) : entries[i].tk = "list" /\ Len(entries[i].items) > 0}

\* C2: when some entry carries a non-empty todos list, the returned map is
\* built only from the list of the last such entry in file order: every
\* record is the record of one of its items (status defaulting to
\* "pending") under that item's id, every item that names an id has a record
\* under it, and nothing of the TaskCreate/TaskUpdate calls remains.
C2_SnapshotWins ==
    (script = "extract_tasks" /\ pc = "returned" /\ SnapshotEntries # {}) =>
        LET last == CHOOSE i \in SnapshotEntries :
                        \A j \in SnapshotEntries : j <= i
            snap == entries[last].items
        IN  /\ tasks # <<>>
            /\ \A tid \in DOMAIN tasks :
                  \E k \in 1..Len(snap) :
                      /\ tasks[tid] = RecordOfItem(snap[k])
                      /\ snap[k].id # JAbsent => snap[k].id.s = tid
            /\ \A k \in 1..Len(snap) :
                  snap[k].id # JAbsent => snap[k].id.s \in DOMAIN tasks

\* task "1" is created, set in_progress by an update, and then listed as
\* completed by a snapshot: it ends completed
C2_Witness ==
    /\ script = "extract_tasks" /\ pc = "returned" /\ Len(entries) = 3
    /\ entries[1] = Entry("assistant",
          <<ToolUse("TaskCreate",
                    Fields("object", JAbsent, JAbsent, JStr(<<"A">>), JAbsent))>>)
    /\ entries[2] = Entry("assistant",
          <<ToolUse("TaskUpdate",
                    Fields("object", IdOne, InProgress, JAbsent, JAbsent))>>)
    /\ entries[3].items = <<ItemOne>>
    /\ DOMAIN tasks = {Str(1)}
    /\ tasks[Str(1)].status = <<"completed">>
    /\ tasks[Str(1)].subject = <<"S">>

\* the tool call an entry of the transcript makes, if it is an assistant
\* entry whose content is one tool_use block
IsCall(e, name) ==
    /\ e.k = "object" /\ e.type = "assistant" /\ e.ck = "list"
    /\ Len(e.blocks) = 1
    /\ e.blocks[1].k = "object" /\ e.blocks[1].type = "tool_use"
    /\ e.blocks[1].name = name

CreateCalls == {i \in 1..Len(entries) : IsCall(entries[i], "TaskCreate")}

\* where in the transcript the j-th TaskCreate is
CreatePos(j) ==
    CHOOSE i \in CreateCalls : Cardinality({x \in CreateCalls : x <= i}) = j

\* the updates of task j, made after its creation, that carry a truthy
\* value for the field
UpdatesOf(j, field) ==
    {i \in 1..Len(entries) :
        /\ i > CreatePos(j)
        /\ IsCall(entries[i], "TaskUpdate")
        /\ entries[i].blocks[1].input.id = JStr(Str(j))
        /\ entries[i].blocks[1].input[field].t}

\* every update of task j made after its creation
AllUpdatesOf(j) ==
    {i \in 1..Len(entries) :
        /\ i > CreatePos(j)
        /\ IsCall(entries[i], "TaskUpdate")
        /\ entries[i].blocks[1].input.id = JStr(Str(j))}

SetMax(S) == CHOOSE x \in S : \A y \in S : y <= x

\* the field of task j: that of its last update that carries one, else the
\* value it was created with
FieldOf(j, field, created_with) ==
    IF UpdatesOf(j, field) = {} THEN created_with
    ELSE entries[SetMax(UpdatesOf(j, field))].blocks[1].input[field].s

CreatedSubject(j) ==
    LET inp == entries[CreatePos(j)].blocks[1].input
    IN  IF inp.subject = JAbsent THEN <<"Unknown task">> ELSE inp.subject.s

\* C10 (as amended): while no snapshot is applied, the map's keys are
\* exactly "1".."n", n the number of TaskCreate calls so far; task j is
\* "pending" with the subject it was created with until a TaskUpdate that
\* targets it after its creation changes it; such an update overwrites the
\* status, the subject and the description only where it provides a
\* non-empty value and changes no other record; an update whose target is
\* not in the map (also one created only later) changes nothing.
C10_IncrementalMap ==
    (script = "extract_tasks" /\ pc = "scan") =>
        LET n == Cardinality(CreateCalls) IN
        /\ task_counter = n
        /\ DOMAIN created_tasks = {Str(j) : j \in 1..n}
        /\ \A j \in 1..n :
              created_tasks[Str(j)] =
                  [status |-> FieldOf(j, "status", <<"pending">>),
                   subject |-> FieldOf(j, "subject", CreatedSubject(j)),
                   description |-> FieldOf(j, "description", <<>>)]

\* task "1" is created and then updated with a new subject and no status:
\* it is still pending, under the new subject
C10_Witness ==
    /\ script = "extract_tasks" /\ pc = "scan" /\ Len(entries) = 3
    /\ IsCall(entries[1], "TaskUpdate")
    /\ IsCall(entries[2], "TaskCreate")
    /\ entries[3] = Entry("assistant",
          <<ToolUse("TaskUpdate",
                    Fields("object", IdOne, JAbsent, JStr(<<"B">>),
                           JStr(<<"D">>)))>>)
    /\ created_tasks[Str(1)] =
          [status |-> <<"pending">>, subject |-> <<"B">>,
           description |-> <<"D">>]

\* C10 as stated: a TaskUpdate whose target is in the map overwrites the
\* record's status with the update's status (the code reads an absent status
\* as ""), and the subject and description when provided.
C10_StatusAlwaysOverwritten ==
    (script = "extract_tasks" /\ pc = "scan") =>
        LET n == Cardinality(CreateCalls) IN
        /\ DOMAIN created_tasks = {Str(j) : j \in 1..n}
        /\ \A j \in 1..n :
              /\ created_tasks[Str(j)].status =
                    IF AllUpdatesOf(j) = {} THEN <<"pending">>
                    ELSE Get(entries[SetMax(AllUpdatesOf(j))].blocks[1].input.status,
                             JStr(<<>>)).s
              /\ created_tasks[Str(j)].subject =
                    FieldOf(j, "subject", CreatedSubject(j))
              /\ created_tasks[Str(j)].description =
                    FieldOf(j, "description", <<>>)

----------------------------------------------------------------------------
(* index-search-hook.py                                                     *)

IsPrefix(a, b) == Len(a) <= Len(b) /\ SubSeq(b, 1, Len(a)) = a

\* directory a is a strict ancestor of directory b
StrictAncestor(a, b) == IsPrefix(a, b) /\ a # b

\* the candidates of the lookup in the order the claim gives: the
\* environment's project directory (when set and not empty), the working
\* directory, then its ancestors from nearest to farthest
Candidates ==
    (IF env_project_dir # <<>> /\ env_project_dir[1] # <<>>
     THEN <<env_project_dir[1]>> ELSE <<>>)
    \o <<cwd_dir>> \o Parents(cwd_dir)

\* C8: the lookup examines the candidates in order and returns the first
\* that holds an index; when the working directory is at or below the home
\* directory, the walk from the working directory upwards never examines or
\* returns a strict ancestor of the home directory, and returns none when no
\* candidate up to the home directory (nor the environment's) holds an index.
C8_LookupStopsAtHome ==
    (script = "index-search" /\ index_dir.examined # <<>>) =>
        LET ex == index_dir.examined IN
        /\ Len(ex) <= Len(Candidates)
        /\ \A i \in 1..Len(ex) : ex[i].dir = Candidates[i]
        /\ \A i \in 1..(Len(ex) - 1) : ~HasIndex(ex[i].dir)
        /\ index_dir.found =>
              index_dir.dir = ex[Len(ex)].dir /\ HasIndex(index_dir.dir)
        /\ IsPrefix(home_dir, cwd_dir) =>
              /\ \A i \in 1..Len(ex) :
                    ex[i].via # "env" => ~StrictAncestor(ex[i].dir, home_dir)
              /\ (\A i \in 1..Len(Candidates) :
                     HasIndex(Candidates[i]) =>
                         /\ StrictAncestor(Candidates[i], home_dir)
                         /\ <<Candidates[i]>> # env_project_dir)
                 => ~index_dir.found

\* the lines of all_matches that follow the label of the file just closed
ReportedOfLast ==
    LET label == <<IndexFiles[sif_f][2]>>
        at == {i \in 1..Len(all_matches) : all_matches[i] = label}
    IN  IF at = {} THEN 0 ELSE Len(all_matches) - SetMax(at)

Labels == {<<IndexFiles[i][2]>> : i \in 1..Len(IndexFiles)}

\* the matched lines reported so far, labels left out
ReportedLines == SelectSeq(all_matches, LAMBDA l : l \notin Labels)

Least(a, b) == IF a < b THEN a ELSE b

ExistingIndexFiles == {f \in IndexFileNames : index_files[f] # "absent"}

\* C7 (as amended): of the lines of one index file that match, the first 10
\* are reported (30 divided by the three index file names, however many of
\* the files exist), and all of them when fewer match; the matched lines
\* reported in one run never exceed 30.
C7_CapIsTenPerFile ==
    script = "index-search" =>
        /\ pc = "sif_closed" =>
              ReportedOfLast = Least(Len(matched), MaxLines \div 3)
        /\ Len(ReportedLines) <= MaxLines
        /\ \A d \in Range(stdout) : d.matches = all_matches

\* eleven lines of the only index file that exists match: ten are reported
C7_Witness ==
    /\ script = "index-search" /\ pc = "sif_closed"
    /\ ExistingIndexFiles = {IndexFiles[sif_f][1]}
    /\ Len(matched) = 11
    /\ ReportedOfLast = 10

\* C7 as stated: the cap of one file is 30 divided by the number of index
\* files that exist: 30 when one exists, 15 when two do, 10 when all three do.
C7_CapSharedAmongExisting ==
    script = "index-search" =>
        /\ pc = "sif_closed" =>
              ReportedOfLast =
                  Least(Len(matched), MaxLines \div Cardinality(ExistingIndexFiles))
        /\ Len(ReportedLines) <= MaxLines

\* C5: a run of the advisor prints nothing or one document whose decision is
\* "allow"; it prints only when the tool is Grep or Glob, an index directory
\* was found, a search term was extracted and a line of an index file
\* matched; no run prints another decision or exits with a status other
\* than 0.
C5_NeverBlocks ==
    script = "index-search" =>
        /\ Len(stdout) <= 1
        /\ \A d \in Range(stdout) : d.permissionDecision = "allow"
        /\ stdout # <<>> =>
              /\ stdin.tool_name.s \in {<<"Grep">>, <<"Glob">>}
              /\ index_dir.found
              /\ terms # {}
              /\ \E l \in Range(ReportedLines) : LineMatches(l, terms)
        /\ pc = "done" => exit_code = 0

\* the same without the exit status
C5_AllowOnly ==
    script = "index-search" =>
        /\ Len(stdout) <= 1
        /\ \A d \in Range(stdout) : d.permissionDecision = "allow"
        /\ stdout # <<>> =>
              /\ stdin.tool_name.s \in {<<"Grep">>, <<"Glob">>}
              /\ index_dir.found
              /\ terms # {}
              /\ \E l \in Range(ReportedLines) : LineMatches(l, terms)

----------------------------------------------------------------------------
(* Outstanding mentions                                                     *)

\* the stripped lines of the text blocks of the assistant entries, in order
RECURSIVE Flatten(_)
Flatten(ss) == IF ss = <<>> THEN <<>> ELSE Head(ss) \o Flatten(Tail(ss))

BlockLines(block) ==
    IF block.type = "text"
    THEN [i \in DOMAIN SplitOn(block.text, {"\n"}) |->
             Strip(SplitOn(block.text, {"\n"})[i], Whitespace)]
    ELSE <<>>

AssistantLines(es) ==
    Flatten([i \in DOMAIN es |->
        IF es[i].type = "assistant"
        THEN Flatten([j \in DOMAIN es[i].blocks |-> BlockLines(es[i].blocks[j])])
        ELSE <<>>])

\* the flagged lines of a transcript in order of appearance
FlaggedLines(es) == SelectSeq(AssistantLines(es), Flagged)

LowerAll(ls) == [i \in DOMAIN ls |-> LowerStr(ls[i])]

\* positions of the lines that repeat no earlier one (low: lowercased lines)
FirstSeen(low) ==
    { i \in DOMAIN low : \A j \in 1..(i - 1) : low[j] # low[i] }

RECURSIVE Pick(_, _, _)
Pick(s, keep, i) ==
    IF i > Len(s) THEN <<>>
    ELSE (IF i \in keep THEN <<s[i]>> ELSE <<>>) \o Pick(s, keep, i + 1)

\* indexes i < j of two lines that differ in letter case only
CasePairs(ls, low) ==
    { p \in (DOMAIN ls) \X (DOMAIN ls) :
        p[1] < p[2] /\ ls[p[1]] # ls[p[2]] /\ low[p[1]] = low[p[2]] }

\* how many of the returned mentions read `text` once lowercased
MentionsReading(lowMentions, text) ==
    Cardinality({ k \in DOMAIN lowMentions : lowMentions[k] = text })

\* C6: the list extract_outstanding_mentions returns holds no two entries
\* that are equal after lowercasing, has at most 20 entries, and is the last
\* 20 of the flagged lines (each lowercased text counted once, where it first
\* appears) in order of appearance; two flagged lines that differ only in
\* letter case never yield two mentions, and yield exactly one whenever no
\* more than 20 distinct lines were flagged.
C6_MentionsDedupedAndBounded ==
    (script = "extract_mentions" /\ pc = "returned") =>
        LET flagged == FlaggedLines(entries)
            low == LowerAll(flagged)
            distinct == Pick(flagged, FirstSeen(low), 1)
            lowMentions == LowerAll(mentions)
        IN  /\ \A i, j \in DOMAIN mentions :
                  i # j => lowMentions[i] # lowMentions[j]
            /\ Len(mentions) <= 20
            /\ mentions = LastN(distinct, 20)
            /\ \A p \in CasePairs(flagged, low) :
                  /\ MentionsReading(lowMentions, low[p[1]]) <= 1
                  /\ Len(distinct) <= 20 =>
                        MentionsReading(lowMentions, low[p[1]]) = 1

\* more than 20 distinct lines were flagged, two of the flagged lines differ
\* in letter case only, and the pair has left one mention in the result
C6_Witness ==
    /\ script = "extract_mentions" /\ pc = "returned"
    /\ Len(mentions) = 20
    /\ LET flagged == FlaggedLines(entries)
           low == LowerAll(flagged)
       IN  /\ Cardinality(FirstSeen(low)) > 20
           /\ \E p \in CasePairs(flagged, low) :
                 MentionsReading(LowerAll(mentions), low[p[1]]) = 1

----------------------------------------------------------------------------
(* Exit status                                                              *)

\* C1: each of the three scripts, on every input, ends with exit status 0
C1_AlwaysExitsZero == pc = "done" => exit_code = 0

----------------------------------------------------------------------------
(* TODO.md                                                                  *)

\* the transcript of the run at hand yields no task whose status is other
\* than "completed" or "deleted", and no outstanding mention
QuietTranscript ==
    LET es == ParseTranscript(transcript)
        ts == ExtractTasks(es)
    IN  /\ ~ts.raised
        /\ \A tid \in DOMAIN ts.created :
              ts.created[tid].status \in {<<"completed">>, <<"deleted">>}
        /\ ExtractMentions(es) = <<>>

\* C3: no step of a session-end run whose transcript yields no incomplete
\* task and no outstanding mention changes TODO.md: an existing file keeps
\* its text, an absent file stays absent, whatever user requests were
\* captured.
C3_QuietRunLeavesFile ==
    [][(script = "session-todo" /\ QuietTranscript) => todo_file' = todo_file]_vars

\* a later run found only completed work and user requests, went as far as
\* build_todo_content, and ended with the file of the earlier run in place
C3_Witness ==
    /\ script = "session-todo" /\ pc = "done" /\ exit_code = 0
    /\ QuietTranscript
    /\ tasks # <<>> /\ user_requests # <<>>
    /\ run_no > 1 /\ todo_file.exists

NL == "\n"

\* where the section headers stand in a text
Headers(text) == { i \in DOMAIN text : text[i] = "## Session " }

\* exactly one blank line separates the header at i from what precedes
OneBlankLineBefore(text, i) ==
    i > 3 /\ text[i - 1] = NL /\ text[i - 2] = NL /\ text[i - 3] # NL

\* the text opens with the preamble, which occurs nowhere else
PreambleOnce(text) ==
    /\ StartsWith(text, Preamble)
    /\ Cardinality({ i \in DOMAIN text : text[i] = Preamble[1] }) = 1
    /\ \A i \in Headers(text) : i > Len(Preamble)

\* C4: starting from a project without TODO.md, every run that writes its
\* section leaves a file that opens with the preamble (once), keeps all the
\* earlier text in place (trailing newlines aside) and ends with the new
\* section, whose header is the last of the file and stands after exactly
\* one blank line, as every earlier header still does; no other step of a
\* run changes the file.
C4_AppendOrdering ==
    [][script = "session-todo" =>
         IF pc = "write" /\ Writable(StProjectDir)
         THEN LET old == todo_file.text
                  new == todo_file'.text
                  kept == RStrip(IF todo_file.exists THEN old ELSE Preamble,
                                 {NL})
              IN  /\ todo_file'.exists
                  /\ PreambleOnce(new)
                  /\ content[1] = NL /\ content[2] = "## Session "
                  /\ new = kept \o <<NL, NL>> \o Tail(content)
                  /\ Cardinality(Headers(new)) = Cardinality(Headers(old)) + 1
                  /\ \A i \in Headers(new) : OneBlankLineBefore(new, i)
         ELSE todo_file' = todo_file]_vars

\* three runs have each written a section, and the first two ended in a
\* task line whose subject closes with a newline
C4_Witness ==
    /\ script = "session-todo" /\ pc = "done"
    /\ Cardinality(Headers(todo_file.text)) = 3
    /\ \E i, j \in DOMAIN todo_file.text :
          /\ i < j
          /\ SubSeq(todo_file.text, i, i + 3) = <<"A", NL, NL, "## Session ">>
          /\ SubSeq(todo_file.text, j, j + 3) = <<"A", NL, NL, "## Session ">>

----------------------------------------------------------------------------
(* Snapshot items                                                           *)

\* C11: when a snapshot replaces the task map no item of it is lost: the
\* returned map has exactly as many records as the last snapshot list has
\* items, and every item, with an id of its own or without, has its record
\* in the map (under its id when it names one).
C11_NoSnapshotItemLost ==
    (script = "extract_tasks" /\ pc = "returned" /\ SnapshotEntries # {}) =>
        LET last == CHOOSE i \in SnapshotEntries :
                        \A j \in SnapshotEntries : j <= i
            snap == entries[last].items
        IN  /\ Cardinality(DOMAIN tasks) = Len(snap)
            /\ \A k \in 1..Len(snap) :
                  \E tid \in DOMAIN tasks :
                      /\ tasks[tid] = RecordOfItem(snap[k])
                      /\ snap[k].id # JAbsent => snap[k].id.s = tid

====
